---------------------------- MODULE Spec2Model ----------------------------
(***************************************************************************)
(* Model of the SqlxCrud derive macro (sqlx-crud-macros/src/lib.rs).       *)
(*                                                                         *)
(* One expansion of the macro is a run of the state machine: the derive    *)
(* input (attributes, struct identifier, fields) is fixed by Init, then    *)
(* Config::new, build_static_model_schema, build_sqlx_crud_impl and the    *)
(* final quote! run in the order of derive's body.  A panic anywhere ends  *)
(* the expansion with no token stream.  After a successful expansion the   *)
(* generated paginated_args may be called.                                 *)
(*                                                                         *)
(* SQL text is a sequence of tokens: the literal pieces of the format      *)
(* strings, the identifiers, and the quote characters, in the order        *)
(* format! writes them.  Concatenating the tokens gives the Rust string.   *)
(* A TLA+ string cannot hold the character U+0060, so the token Backtick   *)
(* stands for it.                                                          *)
(***************************************************************************)
EXTENDS Integers, Sequences, FiniteSets, TLC

VARIABLES
    attrs,                  \* DeriveInput.attrs: the struct's attributes
    ident,                  \* DeriveInput.ident: the struct's name
    data,                   \* DeriveInput.data: shape of the item
    named,                  \* FieldsNamed.named: the fields, in declaration order
    pc,                     \* position in derive's body
    config,                 \* the Config built by Config::new
    static_model_schema,    \* the Metadata static built by build_static_model_schema
    sqlx_crud_impl,         \* the impls built by build_sqlx_crud_impl
    output,                 \* the token stream derive returns
    panic_msg,              \* message of the panic that ended the expansion
    args                    \* result of the last call of the generated paginated_args

vars == <<attrs, ident, data, named, pc, config, static_model_schema,
          sqlx_crud_impl, output, panic_msg, args>>

---------------------------------------------------------------------------
(* Bounds of the model. *)

MaxCols == 3        \* most fields of the struct

(* The limit and offset values paginated_args is called with. *)
PageValues == {0, 10}

NamePool == <<"id", "name", "email", "age", "bio">>

FieldNames == {NamePool[i] : i \in 1..(IF MaxCols < Len(NamePool) THEN MaxCols ELSE Len(NamePool))}

StructIdents == {"User"}

(* Option::None of a record-valued slot, and of an identifier *)
None == [none |-> TRUE]
NoIdent == "None"
NoPanic == "NoPanic"
Panic == "Panic"

DoubleQuote == "\""
Backtick == "BACKTICK"

---------------------------------------------------------------------------
(* enum DbType *)
DbType == {"Any", "Mssql", "MySql", "Postgres", "Sqlite"}

(* Tokens a #[database(...)] attribute is tried with. *)
DialectTokens == DbType \cup {"Oracle"}

(* The forms of a #[database] attribute:                                   *)
(*   absent  no such attribute                                             *)
(*   bare    #[database] or #[database = ...]: not a list                  *)
(*   ident   #[database(Tok)]                                              *)
(*   path    #[database(some::Tok)]: a path of several segments            *)
(*   lit     #[database("Tok")]: a literal                                 *)
DatabaseAttrs ==
    {[form |-> "absent", tok |-> ""], [form |-> "bare", tok |-> ""]}
    \cup {[form |-> "ident", tok |-> t] : t \in DialectTokens}
    \cup {[form |-> f, tok |-> "Oracle"] : f \in {"path", "lit"}}

(* The forms of a #[table] attribute: absent, or #[table(accounts)]. *)
TableAttrs ==
    {[form |-> "absent", tok |-> ""],
     [form |-> "ident", tok |-> "accounts"]}

Attrs == [database : DatabaseAttrs, table : TableAttrs, external_id : BOOLEAN]

(* A field: its identifier and whether it carries #[id]. *)
Field == [ident : FieldNames, id : BOOLEAN]

(* Rust rejects a struct with two fields of one name. *)
Punctuated ==
    {s \in UNION {[1..n -> Field] : n \in 0..MaxCols} :
        \A i, j \in DOMAIN s : s[i].ident = s[j].ident => i = j}

---------------------------------------------------------------------------
(* Iterator helpers. *)

(* .collect::<Vec<_>>().join(sep) over token sequences *)
RECURSIVE Join(_, _)
Join(parts, sep) ==
    IF parts = <<>> THEN <<>>
    ELSE IF Len(parts) = 1 THEN parts[1]
    ELSE parts[1] \o <<sep>> \o Join(Tail(parts), sep)

(* format!("${}", n) *)
Placeholder(n) == "$" \o ToString(n)

(* named.iter().flat_map(|f| &f.ident) *)
Idents(fields) == [k \in DOMAIN fields |-> fields[k].ident]

(* Inflector's to_table_case on the struct names of the model *)
to_table_case(name) ==
    CASE name = "User" -> "users"
      [] OTHER -> name

---------------------------------------------------------------------------
(* impl From<&str> for DbType *)
DbTypeFrom(db_type) ==
    CASE db_type = "Any" -> "Any"
      [] db_type = "Mssql" -> "Mssql"
      [] db_type = "MySql" -> "MySql"
      [] db_type = "Postgres" -> "Postgres"
      [] db_type = "Sqlite" -> "Sqlite"
      [] OTHER -> Panic

(* DbType::new: db_type starts as Sqlite; the closure of parse_nested_meta *)
(* runs only for a list attribute whose item parses as a path, and assigns *)
(* only when the path is a single identifier.  The Result of               *)
(* parse_nested_meta is dropped.                                           *)
DbTypeNew(as) ==
    LET a == as.database IN
    IF a.form = "absent" THEN "Sqlite"
    ELSE IF a.form \in {"bare", "lit"} THEN "Sqlite"
    ELSE IF a.form = "ident" THEN DbTypeFrom(a.tok)
    ELSE "Sqlite"

(* quote_ident with the MySql arm quoting like the other arms *)
quote_ident_NoBacktick(db_ty, name) == <<DoubleQuote, name, DoubleQuote>>

(* DbType::quote_ident *)
quote_ident(db_ty, name) ==
    CASE db_ty = "Any" -> <<DoubleQuote, name, DoubleQuote>>
      [] db_ty = "Mssql" -> <<DoubleQuote, name, DoubleQuote>>
      [] db_ty = "MySql" -> <<Backtick, name, Backtick>>
      [] db_ty = "Postgres" -> <<DoubleQuote, name, DoubleQuote>>
      [] db_ty = "Sqlite" -> <<DoubleQuote, name, DoubleQuote>>

---------------------------------------------------------------------------
(* Config::new, the parts after DbType::new. *)

(* named.iter().find(|f| f.attrs.iter().any(|a| a.path().is_ident("id")))  *)
(*      .and_then(|f| f.ident.as_ref())                                    *)
id_attr(fields) ==
    IF \E k \in DOMAIN fields : fields[k].id
    THEN LET k == CHOOSE k \in DOMAIN fields :
                      fields[k].id /\ \A j \in 1..(k - 1) : ~fields[j].id
         IN fields[k].ident
    ELSE NoIdent

(* id_column_ident that never looks at the #[id] marker *)
id_column_ident_FirstField(fields) ==
    IF fields = <<>> THEN Panic ELSE Idents(fields)[1]

(* id_attr.unwrap_or_else(|| named.iter().flat_map(..).next().expect(..)) *)
id_column_ident(fields) ==
    IF id_attr(fields) # NoIdent THEN id_attr(fields)
    ELSE IF fields = <<>> THEN Panic
    ELSE Idents(fields)[1]

(* attrs.iter().any(|a| a.path().is_ident("external_id")) *)
external_id(as) == as.external_id

(* The #[table] attribute's identifier, else to_table_case of the struct name *)
table_name(as, name) ==
    IF as.table.form = "ident" THEN as.table.tok ELSE to_table_case(name)

ConfigOf(as, name, fields) ==
    [named |-> fields,
     db_ty |-> DbTypeNew(as),
     table_name |-> table_name(as, name),
     id_column_ident |-> id_column_ident(fields),
     external_id |-> external_id(as)]

---------------------------------------------------------------------------
(* build_sql_queries *)

(* let table_name = config.quote_ident(&config.table_name) *)
quoted_table_name(c) == quote_ident(c.db_ty, c.table_name)

(* id_column built from the first declared column *)
id_column_FirstColumn(c) ==
    quoted_table_name(c) \o <<".">> \o quote_ident(c.db_ty, Idents(c.named)[1])

(* let id_column = format!("{}.{}", table_name, quote_ident(id_column_ident)) *)
id_column(c) ==
    quoted_table_name(c) \o <<".">> \o quote_ident(c.db_ty, c.id_column_ident)

(* insert_bind_cnt that counts the identity column in both cases *)
insert_bind_cnt_AllColumns(c) == Len(c.named)

insert_bind_cnt(c) ==
    IF c.external_id THEN Len(c.named) ELSE Len(c.named) - 1

(* (0..insert_bind_cnt).map(|i| format!("${}", i + 1)).join(", ") *)
insert_sql_binds(c) ==
    Join([k \in 1..insert_bind_cnt(c) |-> LET i == k - 1 IN <<Placeholder(i + 1)>>],
         ", ")

(* update_sql_binds with the filter of insert_column_list *)
update_sql_binds_InsertFilter(c) ==
    LET cols == SelectSeq(Idents(c.named),
                          LAMBDA i : c.external_id \/ i # c.id_column_ident)
    IN [k \in 1..Len(cols) |->
            LET i == k - 1
            IN quote_ident(c.db_ty, cols[k]) \o <<" = ", Placeholder(i + 1)>>]

(* idents.filter(|i| *i != id_column_ident).enumerate()                    *)
(*       .map(|(i, ident)| format!("{} = ${}", quote_ident(ident), i + 1)) *)
update_sql_binds(c) ==
    LET cols == SelectSeq(Idents(c.named), LAMBDA i : i # c.id_column_ident)
    IN [k \in 1..Len(cols) |->
            LET i == k - 1
            IN quote_ident(c.db_ty, cols[k]) \o <<" = ", Placeholder(i + 1)>>]

(* idents.filter(|i| external_id || *i != id_column_ident)                 *)
(*       .map(|i| quote_ident(i)).join(", ")                               *)
insert_column_list(c) ==
    LET cols == SelectSeq(Idents(c.named),
                          LAMBDA i : c.external_id \/ i # c.id_column_ident)
    IN Join([k \in 1..Len(cols) |-> quote_ident(c.db_ty, cols[k])], ", ")

(* column_list that leaves the identity column out *)
column_list_NoIdentity(c) ==
    LET cols == SelectSeq(Idents(c.named), LAMBDA i : i # c.id_column_ident)
    IN Join([k \in 1..Len(cols) |->
                quoted_table_name(c) \o <<".">> \o quote_ident(c.db_ty, cols[k])],
            ", ")

(* idents.map(|i| format!("{}.{}", table_name, quote_ident(i))).join(", ") *)
column_list(c) ==
    LET cols == Idents(c.named)
    IN Join([k \in 1..Len(cols) |->
                quoted_table_name(c) \o <<".">> \o quote_ident(c.db_ty, cols[k])],
            ", ")

(* format!("SELECT {} FROM {}", column_list, table_name) *)
select_sql(c) ==
    <<"SELECT ">> \o column_list(c) \o <<" FROM ">> \o quoted_table_name(c)

(* format!("SELECT {} FROM {} LIMIT $1 OFFSET $2", column_list, table_name) *)
paginated_sql(c) ==
    <<"SELECT ">> \o column_list(c) \o <<" FROM ">> \o quoted_table_name(c)
        \o <<" LIMIT ", "$1", " OFFSET ", "$2">>

(* format!("SELECT {} FROM {} WHERE {} = $1 LIMIT 1", ..) *)
select_by_id_sql(c) ==
    <<"SELECT ">> \o column_list(c) \o <<" FROM ">> \o quoted_table_name(c)
        \o <<" WHERE ">> \o id_column(c) \o <<" = ", "$1", " LIMIT ", "1">>

(* format!("INSERT INTO {} ({}) VALUES ({}) RETURNING {}", ..) *)
insert_sql(c) ==
    <<"INSERT INTO ">> \o quoted_table_name(c)
        \o <<" (">> \o insert_column_list(c)
        \o <<") VALUES (">> \o insert_sql_binds(c)
        \o <<") RETURNING ">> \o column_list(c)

(* format!("UPDATE {} SET {} WHERE {} = ${} RETURNING {}", ..) *)
update_by_id_sql(c) ==
    <<"UPDATE ">> \o quoted_table_name(c)
        \o <<" SET ">> \o Join(update_sql_binds(c), ", ")
        \o <<" WHERE ">> \o id_column(c)
        \o <<" = ", Placeholder(Len(update_sql_binds(c)) + 1)>>
        \o <<" RETURNING ">> \o column_list(c)

(* format!("DELETE FROM {} WHERE {} = $1", table_name, id_column) *)
delete_by_id_sql(c) ==
    <<"DELETE FROM ">> \o quoted_table_name(c)
        \o <<" WHERE ">> \o id_column(c) \o <<" = ", "$1">>

build_sql_queries(c) ==
    [select_sql |-> select_sql(c),
     select_by_id_sql |-> select_by_id_sql(c),
     insert_sql |-> insert_sql(c),
     update_by_id_sql |-> update_by_id_sql(c),
     delete_by_id_sql |-> delete_by_id_sql(c),
     paginated_sql |-> paginated_sql(c)]

(* build_static_model_schema: the Metadata static *)
build_static_model_schema(c) ==
    [table_name |-> c.table_name,
     id_column |-> c.id_column_ident,
     columns |-> Idents(c.named),
     sql_queries |-> build_sql_queries(c)]

---------------------------------------------------------------------------
(* build_sqlx_crud_impl.  The body of a generated *_args function is the   *)
(* sequence of its args.add(self.<field>) statements, written as the       *)
(* sequence of the fields.                                                 *)

(* named.iter().find(|f| f.ident == Some(id_column_ident)).expect(..) *)
id_ty(c) ==
    IF \E k \in DOMAIN c.named : c.named[k].ident = c.id_column_ident
    THEN c.id_column_ident
    ELSE Panic

insert_query_args(c) ==
    SelectSeq(Idents(c.named), LAMBDA i : c.external_id \/ i # c.id_column_ident)

update_query_args(c) ==
    SelectSeq(Idents(c.named), LAMBDA i : i # c.id_column_ident)

update_query_args_id(c) == <<c.id_column_ident>>

(* fn insert_args: #(#insert_query_args)* *)
insert_args(c) == insert_query_args(c)

(* update_args that binds the identity first *)
update_args_IdFirst(c) == update_query_args_id(c) \o update_query_args(c)

(* fn update_args: #(#update_query_args)* #update_query_args_id *)
update_args(c) == update_query_args(c) \o update_query_args_id(c)

(* paginated_args that binds the offset first *)
paginated_args_OffsetFirst(limit, offset) == <<offset, limit>>

(* fn paginated_args(limit, offset): args.add(limit); args.add(offset) *)
paginated_args(limit, offset) == <<limit, offset>>

build_sqlx_crud_impl(c) ==
    [db_ty |-> c.db_ty,
     id |-> c.id_column_ident,
     insert_args |-> insert_args(c),
     update_args |-> update_args(c)]

---------------------------------------------------------------------------
(* The expansion. *)

Init ==
    /\ attrs \in Attrs
    /\ ident \in StructIdents
    /\ \/ data = "named" /\ named \in Punctuated
       \/ data = "other" /\ named = <<>>
    /\ pc = "derive"
    /\ config = None
    /\ static_model_schema = None
    /\ sqlx_crud_impl = None
    /\ output = None
    /\ panic_msg = NoPanic
    /\ args = None

(* derive, the arm `_ => panic!(..)`: not a struct with named fields *)
DeriveOther ==
    /\ pc = "derive"
    /\ data # "named"
    /\ pc' = "panic"
    /\ panic_msg' = "this derive macro only works on structs with named fields"
    /\ UNCHANGED <<attrs, ident, data, named, config, static_model_schema,
                   sqlx_crud_impl, output, args>>

(* derive, line 22: Config::new.  DbType::new runs first and may panic,    *)
(* then the identity column is looked up and may panic.                    *)
ConfigNew ==
    /\ pc = "derive"
    /\ data = "named"
    /\ IF DbTypeNew(attrs) = Panic
       THEN /\ pc' = "panic"
            /\ panic_msg' = "unknown #[database] type"
            /\ UNCHANGED config
       ELSE IF id_column_ident(named) = Panic
       THEN /\ pc' = "panic"
            /\ panic_msg' = "the first field"
            /\ UNCHANGED config
       ELSE /\ pc' = "schema"
            /\ config' = ConfigOf(attrs, ident, named)
            /\ UNCHANGED panic_msg
    /\ UNCHANGED <<attrs, ident, data, named, static_model_schema,
                   sqlx_crud_impl, output, args>>

(* derive, line 23 *)
BuildStaticModelSchema ==
    /\ pc = "schema"
    /\ static_model_schema' = build_static_model_schema(config)
    /\ pc' = "impl"
    /\ UNCHANGED <<attrs, ident, data, named, config, sqlx_crud_impl, output,
                   panic_msg, args>>

(* derive, line 24 *)
BuildSqlxCrudImpl ==
    /\ pc = "impl"
    /\ IF id_ty(config) = Panic
       THEN /\ pc' = "panic"
            /\ panic_msg' = "the id type"
            /\ UNCHANGED sqlx_crud_impl
       ELSE /\ pc' = "quote"
            /\ sqlx_crud_impl' = build_sqlx_crud_impl(config)
            /\ UNCHANGED panic_msg
    /\ UNCHANGED <<attrs, ident, data, named, config, static_model_schema,
                   output, args>>

(* derive, lines 26-30: the token stream is returned *)
Quote ==
    /\ pc = "quote"
    /\ output' = [schema |-> static_model_schema, crud |-> sqlx_crud_impl]
    /\ pc' = "done"
    /\ UNCHANGED <<attrs, ident, data, named, config, static_model_schema,
                   sqlx_crud_impl, panic_msg, args>>

(* A call of the generated paginated_args(limit, offset) by the compiled    *)
(* program *)
PaginatedArgs ==
    /\ pc = "done"
    /\ \E limit, offset \in PageValues :
          args' = [limit |-> limit, offset |-> offset,
                   bound |-> paginated_args(limit, offset)]
    /\ pc' = "called"
    /\ UNCHANGED <<attrs, ident, data, named, config, static_model_schema,
                   sqlx_crud_impl, output, panic_msg>>

Next ==
    \/ DeriveOther
    \/ ConfigNew
    \/ BuildStaticModelSchema
    \/ BuildSqlxCrudImpl
    \/ Quote
    \/ PaginatedArgs

Spec == Init /\ [][Next]_vars

---------------------------------------------------------------------------
(* Reading a statement back: properties are stated on the emitted tokens. *)

(* the first position of tok in s at or after k, 0 when there is none *)
RECURSIVE IndexFrom(_, _, _)
IndexFrom(s, tok, k) ==
    IF k > Len(s) THEN 0
    ELSE IF s[k] = tok THEN k
    ELSE IndexFrom(s, tok, k + 1)

IndexOf(s, tok) == IndexFrom(s, tok, 1)

Has(s, tok) == IndexOf(s, tok) # 0

(* the tokens strictly between the first a and the first b *)
Between(s, a, b) == SubSeq(s, IndexOf(s, a) + 1, IndexOf(s, b) - 1)

(* the tokens after the first a *)
After(s, a) == SubSeq(s, IndexOf(s, a) + 1, Len(s))

(* the pieces of s separated by the token sep *)
RECURSIVE SplitOn(_, _)
SplitOn(s, sep) ==
    LET k == IndexOf(s, sep) IN
    IF s = <<>> THEN <<>>
    ELSE IF k = 0 THEN <<s>>
    ELSE <<SubSeq(s, 1, k - 1)>> \o SplitOn(SubSeq(s, k + 1, Len(s)), sep)

(* s without the element x *)
RECURSIVE Without(_, _)
Without(s, x) ==
    IF s = <<>> THEN <<>>
    ELSE IF Head(s) = x THEN Without(Tail(s), x)
    ELSE <<Head(s)>> \o Without(Tail(s), x)

Range(s) == {s[k] : k \in DOMAIN s}

IsPlaceholder(tok) == \E n \in 1..(MaxCols + 2) : tok = Placeholder(n)

PlaceholderCount(s) == Cardinality({k \in 1..Len(s) : IsPlaceholder(s[k])})

(* The descriptor of a finished expansion. *)
Done == pc = "done"
Sql == output.schema.sql_queries
Columns == [k \in DOMAIN named |-> named[k].ident]
Identity == config.id_column_ident
Table == config.table_name
Marked == {k \in DOMAIN named : named[k].id}
QuoteChar(d) == IF d = "MySql" THEN Backtick ELSE DoubleQuote
Q(name) == <<QuoteChar(config.db_ty), name, QuoteChar(config.db_ty)>>
Qualified(name) == Q(Table) \o <<".">> \o Q(name)
StatementNames ==
    {"select_sql", "select_by_id_sql", "insert_sql", "update_by_id_sql",
     "delete_by_id_sql", "paginated_sql"}

(* the column a statement filters on: the 6th token after WHERE *)
WhereColumn(s) == After(s, " WHERE ")[6]

---------------------------------------------------------------------------
(* C1: in the update-by-id statement the SET clause assigns every          *)
(* non-identity column once, in declaration order, to $1..$n with          *)
(* n = len(columns) - 1; WHERE compares the identity column with $(n+1);   *)
(* update_args binds the non-identity columns in declaration order and     *)
(* the identity last, so the i-th bound value is the column of $i.         *)
C1_UpdatePlaceholdersMatchBinding ==
    Done =>
        LET u == Sql.update_by_id_sql
            nonId == Without(Columns, Identity)
            n == Len(nonId)
            clause == Between(u, " SET ", " WHERE ")
            set == SplitOn(clause, ", ")
            where == Between(u, " WHERE ", " RETURNING ")
            bound == output.crud.update_args
        IN /\ n = Len(named) - 1
           /\ Len(set) = n
           /\ \A i \in 1..n : set[i] = Q(nonId[i]) \o <<" = ", Placeholder(i)>>
           /\ where = Qualified(Identity) \o <<" = ", Placeholder(n + 1)>>
           /\ bound = nonId \o <<Identity>>
           /\ Len(bound) = n + 1
           /\ PlaceholderCount(clause) = n
           /\ \A i \in 1..n : set[i][2] = bound[i] /\ set[i][5] = Placeholder(i)
           /\ where[6] = bound[n + 1]

(* An update with two non-identity columns around an identity column that  *)
(* is declared second. *)
C1_Witness ==
    /\ Done
    /\ Len(named) = 3
    /\ Identity = named[2].ident
    /\ output.crud.update_args = <<named[1].ident, named[3].ident, named[2].ident>>

(* C2: the insert statement lists all columns (external identity) or all   *)
(* but the identity column, in declaration order; VALUES holds $1..$n with *)
(* n the length of that list; insert_args binds the same columns in the    *)
(* same order.                                                             *)
C2_InsertColumnsPlaceholdersBinding ==
    Done =>
        LET ins == Sql.insert_sql
            listed == SplitOn(Between(ins, " (", ") VALUES ("), ", ")
            binds == SplitOn(Between(ins, ") VALUES (", ") RETURNING "), ", ")
            expected == IF config.external_id THEN Columns
                        ELSE Without(Columns, Identity)
            n == Len(expected)
            bound == output.crud.insert_args
        IN /\ n = (IF config.external_id THEN Len(named) ELSE Len(named) - 1)
           /\ Len(listed) = n
           /\ \A i \in 1..n : listed[i] = Q(expected[i])
           /\ Len(binds) = n
           /\ \A i \in 1..n : binds[i] = <<Placeholder(i)>>
           /\ bound = expected
           /\ \A i \in 1..n : listed[i][2] = bound[i]

(* An insert that leaves out an identity column declared last. *)
C2_Witness ==
    /\ Done
    /\ ~config.external_id
    /\ Len(named) = 3
    /\ Identity = named[3].ident
    /\ output.crud.insert_args = <<named[1].ident, named[2].ident>>

(* C3: a #[database] attribute that supplies a dialect outside Any, Mssql, *)
(* MySql, Postgres, Sqlite ends the expansion in a panic before any        *)
(* statement is built; no default dialect is used.                         *)
C3_UnknownDialectIsFatal ==
    (attrs.database.form \in {"ident", "path", "lit"} /\ attrs.database.tok \notin DbType)
        => /\ static_model_schema = None
           /\ sqlx_crud_impl = None
           /\ output = None

(* C4: the qualified column list holds every column once, in declaration   *)
(* order, the identity column included, and is the same list in select,    *)
(* paginated select, select-by-id and the RETURNING clauses of insert and  *)
(* update.                                                                 *)
C4_QualifiedColumnListEverywhere ==
    Done =>
        LET sql == Sql
            cols == Columns
            list == Between(sql.select_sql, "SELECT ", " FROM ")
            items == SplitOn(list, ", ")
        IN /\ Len(items) = Len(cols)
           /\ \A i \in 1..Len(cols) : items[i] = Qualified(cols[i])
           /\ \E i \in 1..Len(cols) : items[i] = Qualified(Identity)
           /\ Between(sql.paginated_sql, "SELECT ", " FROM ") = list
           /\ Between(sql.select_by_id_sql, "SELECT ", " FROM ") = list
           /\ After(sql.insert_sql, ") RETURNING ") = list
           /\ After(sql.update_by_id_sql, " RETURNING ") = list

(* Three columns, so that the order of the list can be wrong. *)
C4_Witness ==
    /\ Done
    /\ Len(named) = 3
    /\ Identity = named[2].ident
    /\ Len(SplitOn(After(Sql.insert_sql, ") RETURNING "), ", ")) = 3

(* C5: a missing identity column, an identity designated more than once,   *)
(* or an empty column set ends the expansion in a panic with no statement  *)
(* built.                                                                  *)
C5_BadIdentityIsFatal ==
    (/\ data = "named"
     /\ \/ named = <<>>
        \/ Cardinality(Marked) > 1
        \/ pc \notin {"derive", "panic"} /\ Identity \notin Range(Columns))
        => /\ static_model_schema = None
           /\ sqlx_crud_impl = None
           /\ output = None

(* C6: quote_ident wraps the name in double quotes for Any, Mssql,         *)
(* Postgres and Sqlite and in backticks for MySql; the statements of two   *)
(* dialects differ only in that character; every table and column          *)
(* identifier of every statement sits between two quote characters of the  *)
(* selected dialect.                                                       *)
ReplaceQuote(s, from, to) == [k \in 1..Len(s) |-> IF s[k] = from THEN to ELSE s[k]]

C6_DialectOnlyChoosesQuoteCharacter ==
    /\ \A n \in FieldNames \cup {"users", "accounts"} :
          /\ \A d \in {"Any", "Mssql", "Postgres", "Sqlite"} :
                quote_ident(d, n) = <<DoubleQuote, n, DoubleQuote>>
          /\ quote_ident("MySql", n) = <<Backtick, n, Backtick>>
    /\ Done =>
          LET sql == Sql
              q == QuoteChar(config.db_ty)
              names == Range(Columns) \cup {Table}
          IN /\ \A d \in DbType :
                    LET other == build_sql_queries([config EXCEPT !.db_ty = d])
                    IN \A f \in StatementNames :
                           ReplaceQuote(sql[f], q, QuoteChar(d)) = other[f]
             /\ \A f \in StatementNames :
                    LET s == sql[f] IN
                    \A k \in 1..Len(s) :
                        /\ s[k] \in names
                              => /\ 1 < k /\ k < Len(s)
                                 /\ s[k - 1] = q
                                 /\ s[k + 1] = q
                        /\ s[k] \in {DoubleQuote, Backtick} => s[k] = q

(* A MySql expansion: the one dialect with another quote character. *)
C6_Witness ==
    /\ Done
    /\ config.db_ty = "MySql"
    /\ Len(named) >= 2
    /\ Has(Sql.update_by_id_sql, Backtick)

(* C7: select-by-id, update-by-id and delete-by-id filter on the same      *)
(* qualified identity column, the designated one even when it is not the   *)
(* first column; select-by-id is the select statement followed by          *)
(* WHERE <id> = $1 LIMIT 1; delete-by-id is DELETE FROM <table>            *)
(* WHERE <id> = $1 with $1 its only placeholder.                           *)
C7_ByIdStatementsFilterOnIdentity ==
    Done =>
        LET sql == Sql
            marked == Marked
            upd == Between(sql.update_by_id_sql, " WHERE ", " RETURNING ")
        IN /\ sql.select_by_id_sql
                 = sql.select_sql \o <<" WHERE ">> \o Qualified(Identity)
                       \o <<" = ", "$1", " LIMIT ", "1">>
           /\ sql.delete_by_id_sql
                 = <<"DELETE FROM ">> \o Q(Table) \o <<" WHERE ">>
                       \o Qualified(Identity) \o <<" = ", "$1">>
           /\ PlaceholderCount(sql.delete_by_id_sql) = 1
           /\ SubSeq(upd, 1, 7) = Qualified(Identity)
           /\ marked # {} => \E k \in marked : Identity = named[k].ident
           /\ marked = {} => Identity = named[1].ident

(* The identity is the marked third column. *)
C7_Witness ==
    /\ Done
    /\ Len(named) = 3
    /\ Marked = {3}
    /\ WhereColumn(Sql.delete_by_id_sql) = named[3].ident

(* C8: the paginated statement is the select statement followed by         *)
(* LIMIT $1 OFFSET $2, and paginated_args(limit, offset) binds two values, *)
(* the limit first and the offset second.                                  *)
C8_PaginatedLimitThenOffset ==
    /\ Done =>
          Sql.paginated_sql = Sql.select_sql \o <<" LIMIT ", "$1", " OFFSET ", "$2">>
    /\ pc = "called" =>
          /\ Len(args.bound) = 2
          /\ args.bound[1] = args.limit
          /\ args.bound[2] = args.offset

(* A call with a limit that differs from the offset. *)
C8_Witness ==
    /\ pc = "called"
    /\ args.limit # args.offset
    /\ Len(named) >= 2

(* C9: with no #[database] attribute the dialect is Sqlite; with no #[id]  *)
(* marker the identity column is the first declared column; with a marker  *)
(* the marked field is the identity column of the by-id WHERE clauses,     *)
(* of the insert exclusion and of the last update binding.                 *)
C9_DefaultsAndIdentityMarker ==
    /\ (pc \notin {"derive", "panic"} /\ attrs.database.form = "absent")
          => config.db_ty = "Sqlite"
    /\ Done =>
          LET sql == Sql
              marked == Marked
              id == output.schema.id_column
              listed == SplitOn(Between(sql.insert_sql, " (", ") VALUES ("), ", ")
              bound == output.crud.update_args
          IN /\ marked = {} => id = named[1].ident
             /\ marked # {} => \E k \in marked : id = named[k].ident
             /\ \A k \in marked : marked = {k} => id = named[k].ident
             /\ WhereColumn(sql.select_by_id_sql) = id
             /\ WhereColumn(sql.update_by_id_sql) = id
             /\ WhereColumn(sql.delete_by_id_sql) = id
             /\ ~config.external_id => \A i \in 1..Len(listed) : listed[i][2] # id
             /\ ~config.external_id => id \notin Range(output.crud.insert_args)
             /\ bound[Len(bound)] = id

(* No #[database] attribute, and the marker on a column that is not first. *)
C9_Witness ==
    /\ Done
    /\ attrs.database.form = "absent"
    /\ Len(named) = 3
    /\ Marked = {2}
    /\ ~config.external_id
    /\ WhereColumn(Sql.update_by_id_sql) = named[2].ident

(* C10: two descriptors that differ only in the external-identity flag     *)
(* have the same select, select-by-id, paginated, update-by-id and         *)
(* delete-by-id statements, the same RETURNING clause of the insert        *)
(* statement and the same update binding; the SET clause never assigns     *)
(* the identity column.                                                    *)
C10_ExternalIdOnlyAffectsInsert ==
    Done =>
        LET sql == Sql
            flipped == [config EXCEPT !.external_id = ~config.external_id]
            other == build_sql_queries(flipped)
            set == SplitOn(Between(sql.update_by_id_sql, " SET ", " WHERE "), ", ")
        IN /\ \A f \in StatementNames \ {"insert_sql"} : sql[f] = other[f]
           /\ After(sql.insert_sql, ") RETURNING ") = After(other.insert_sql, ") RETURNING ")
           /\ output.crud.update_args = build_sqlx_crud_impl(flipped).update_args
           /\ \A i \in 1..Len(set) : set[i][2] # Identity

(* An expansion with #[external_id] and more than one column. *)
C10_Witness ==
    /\ Done
    /\ config.external_id
    /\ Len(named) = 3
    /\ Len(output.crud.insert_args) = 3
    /\ Len(output.crud.update_args) = 3

=============================================================================
